---- MODULE Spec2Model ----
(***************************************************************************)
(* VectorSheets: the natural-language command pipeline.                    *)
(*                                                                         *)
(*   getAIResponse      services/geminiService (retry wrapper + gateway)   *)
(*   handleSheetAction  App (mutation engine over the sheet data)          *)
(*   handleSendMessage  App (chat session: one async round trip per send)  *)
(*                                                                         *)
(* Three specifications share the module's variables:                      *)
(*   SpecGateway  one call of getAIResponse, step by step                  *)
(*   SpecEngine   sequences of Actions applied by handleSheetAction        *)
(*   SpecChat     the App's event handlers interleaving with pending calls *)
(* Each leaves the variables of the other two untouched.                   *)
(***************************************************************************)
EXTENDS Integers, Sequences, FiniteSets, TLC

VARIABLES
    apiKey,         \* whether VITE_GEMINI_API_KEY is set and genAI was built
    gw,             \* SpecGateway: the state of one getAIResponse call
    errorHistory,   \* localStorage item 'ai_error_history'
    sheetData,      \* App state: the Dataset (sequence of Records)
    filterState,    \* App state: the filter shown by the grid
    sortState,      \* App state: the sort shown by the grid
    chartData,      \* App state: the chart descriptor, or none
    messages,       \* App state: the Conversation (sequence of turns)
    isLoading,      \* App state: a send is waiting for its response
    history,        \* App state: the history log, newest entry first
    historyIndex,   \* App state: the undo cursor
    conversationContext, \* App state: recent actions and the last query
    sheets,         \* App state: the sheet names
    activeSheet,    \* App state: the name of the sheet shown
    calls,          \* the handleSendMessage invocations awaiting getAIResponse
    lastEvent,      \* the handler that ran last
    lastAction,     \* the Action handleSheetAction consumed last
    prevData,       \* sheetData as it was before that Action
    applied,        \* number of Actions handleSheetAction has applied
    sends,          \* number of handleSendMessage invocations so far
    events          \* number of other UI events handled so far

gwVars == <<apiKey, gw, errorHistory>>
dataVars == <<sheetData, filterState, sortState, chartData, history, historyIndex,
              sheets, activeSheet, lastAction, prevData, applied>>
chatVars == <<messages, isLoading, conversationContext, calls, sends, events>>

vars == <<gwVars, dataVars, chatVars, lastEvent>>

(***************************************************************************)
(* Strings.  An error message is modelled by the set of the signature      *)
(* substrings it contains; String.prototype.includes is membership.        *)
(***************************************************************************)
Includes(message, needle) == needle \in message

\* The messages the LLM backend's errors are drawn from: every signature the
\* code looks for, alone, and the combinations that decide a precedence.
ErrorMessages ==
    { {}, {"503"}, {"overloaded"}, {"429"}, {"rate limit"}, {"quota"},
      {"API key"}, {"401"}, {"network"},
      {"429", "quota"}, {"rate limit", "quota"}, {"rate limit", "API key"},
      {"503", "429"} }

(***************************************************************************)
(* Retry configuration                                                     *)
(***************************************************************************)
\* Mutant: one retry too many (an off-by-one in the retry budget).
MAX_RETRIES_OffByOne == 3 + 1

MAX_RETRIES == 3
BASE_DELAY == 2000
MAX_DELAY == 32000

\* Math.random() * 1000 lies in [0, 1000): the samples the model draws.
JitterSamples == {0, 500, 999}

\* Math.pow(2, n) for the attempt numbers the loop produces.
RECURSIVE Pow2(_)
Pow2(n) == IF n <= 0 THEN 1 ELSE 2 * Pow2(n - 1)

Min(a, b) == IF a < b THEN a ELSE b

\* getRetryDelay: exponential backoff plus jitter.
\* Mutant: the delay grows linearly.
ExponentialDelay_Linear(n) == Min(BASE_DELAY * (n + 1), MAX_DELAY)

ExponentialDelay(n) == Min(BASE_DELAY * Pow2(n), MAX_DELAY)

GetRetryDelay(n, jitter) == ExponentialDelay(n) + jitter

\* Mutant: the 'rate limit' signature forgotten.
IsRetriableError_NoRateLimit(message) ==
    \/ Includes(message, "503")
    \/ Includes(message, "overloaded")
    \/ Includes(message, "429")

\* The test in getAIResponse's catch block.
IsRetriableError(message) ==
    \/ Includes(message, "503")
    \/ Includes(message, "overloaded")
    \/ Includes(message, "429")
    \/ Includes(message, "rate limit")

\* Mutant: the quota branch tested before the 429 branch.
ErrorType_QuotaFirst(message) ==
    IF Includes(message, "503") \/ Includes(message, "overloaded") THEN "network"
    ELSE IF Includes(message, "quota") THEN "quota"
    ELSE IF Includes(message, "429") THEN "rate_limit"
    ELSE IF Includes(message, "API key") \/ Includes(message, "401")
            \/ Includes(message, "403") THEN "auth"
    ELSE IF Includes(message, "network") \/ Includes(message, "fetch") THEN "network"
    ELSE "unknown"

\* The classification chain after the loop: first matching branch wins.
ErrorType(message) ==
    IF Includes(message, "503") \/ Includes(message, "overloaded") THEN "network"
    ELSE IF Includes(message, "429") THEN "rate_limit"
    ELSE IF Includes(message, "quota") THEN "quota"
    ELSE IF Includes(message, "API key") \/ Includes(message, "401")
            \/ Includes(message, "403") THEN "auth"
    ELSE IF Includes(message, "network") \/ Includes(message, "fetch") THEN "network"
    ELSE "unknown"

CanRetry(message) ==
    IF Includes(message, "503") \/ Includes(message, "overloaded") THEN TRUE
    ELSE IF Includes(message, "429") THEN TRUE
    ELSE IF Includes(message, "quota") THEN FALSE
    ELSE IF Includes(message, "API key") \/ Includes(message, "401")
            \/ Includes(message, "403") THEN FALSE
    ELSE IF Includes(message, "network") \/ Includes(message, "fetch") THEN TRUE
    ELSE FALSE

(***************************************************************************)
(* Actions (FunctionCallAction) and AIResponse                             *)
(***************************************************************************)
NoAction == [name |-> "none"]
NoError == [type |-> "none", message |-> {}, canRetry |-> FALSE]

\* The canned explanation of the branch taken, before the technical details.
ErrorText(type, canRetry) ==
    CASE type = "network" /\ canRetry -> "The AI service is currently overloaded or unreachable."
      [] type = "rate_limit" -> "Rate limit exceeded."
      [] type = "quota" -> "Daily quota exceeded."
      [] type = "auth" -> "Authentication error."
      [] OTHER -> "Unable to get a response from the AI."

ErrorResponse(message) ==
    [text |-> ErrorText(ErrorType(message), CanRetry(message)), action |-> NoAction,
     error |-> [type |-> ErrorType(message), message |-> message,
                canRetry |-> CanRetry(message)]]

TextResponse(text) ==
    [text |-> IF text = "" THEN "No response from AI." ELSE text,
     action |-> NoAction, error |-> NoError]

\* functionCall.name.replace('_', ' '): the first underscore becomes a space.
DisplayName(name) ==
    CASE name = "sort_data" -> "sort data"
      [] name = "update_cell" -> "update cell"
      [] name = "generate_chart" -> "generate chart"
      [] name = "batch_update" -> "batch update"
      [] name = "analyze_data" -> "analyze data"
      [] OTHER -> name

ActionResponse(action) ==
    [text |-> "Processing your request: " \o DisplayName(action.name) \o "...",
     action |-> action, error |-> NoError]

NoResponse == [text |-> "", action |-> NoAction, error |-> NoError]

(***************************************************************************)
(* User input.  An utterance is the sequence of its tokens; " " is white   *)
(* space.  toLowerCase maps each token, includes looks for a token.        *)
(***************************************************************************)
LowerOf(token) ==
    CASE token = "Chart" -> "chart"
      [] token = "Reset" -> "reset"
      [] token = "Bar" -> "bar"
      [] token = "Analyze" -> "analyze"
      [] token = "What if" -> "what if"
      [] token = "PREDICT" -> "predict"
      [] OTHER -> token

ToLowerCase(userInput) == [i \in 1..Len(userInput) |-> LowerOf(userInput[i])]

\* The words a token contains besides itself.
WordsWithin(token) ==
    CASE token = "charts" -> {"chart"}
      [] token = "online" -> {"line"}
      [] token = "trending" -> {"trend"}
      [] token = "analyzer" -> {"analyze"}
      [] token = "deeply" -> {"deep"}
      [] OTHER -> {}

\* String.prototype.includes on the utterance.
InputIncludes(userInput, token) ==
    \E i \in 1..Len(userInput) :
        userInput[i] = token \/ token \in WordsWithin(userInput[i])

\* Mutant: the guard without toLowerCase.
ChartGuard_CaseSensitive(userInput) ==
    /\ InputIncludes(userInput, "chart")
    /\ ~InputIncludes(userInput, "bar")
    /\ ~InputIncludes(userInput, "line")
    /\ ~InputIncludes(userInput, "pie")

\* The guard clause at the top of getAIResponse.
ChartGuard(userInput) ==
    /\ InputIncludes(ToLowerCase(userInput), "chart")
    /\ ~InputIncludes(ToLowerCase(userInput), "bar")
    /\ ~InputIncludes(ToLowerCase(userInput), "line")
    /\ ~InputIncludes(ToLowerCase(userInput), "pie")

(***************************************************************************)
(* getAIResponse as a state machine over one call's state.                 *)
(*   pc: idle | ATTEMPTING | SLEEPING | SUCCEEDED | FAILED | RETURNED      *)
(*   RETURNED is a return before the retry loop (no key, chart guard).     *)
(***************************************************************************)
\* userInput.length: the number of characters of the utterance.
RECURSIVE CharLength(_, _)
CharLength(userInput, k) ==
    IF k = 0 THEN 0 ELSE CharLength(userInput, k - 1) + Len(userInput[k])

LENGTH_LIMIT == 200

complexKeywords ==
    {"analyze", "analysis", "correlation", "trend", "insight", "pattern",
     "complex", "multi-step", "detailed", "comprehensive", "deep", "thorough",
     "reasoning", "explain why", "what if", "predict", "forecast"}

\* Mutant: an utterance of exactly 200 characters counts as long.
isComplexQuery_From200(userInput) ==
    \/ \E keyword \in complexKeywords : InputIncludes(ToLowerCase(userInput), keyword)
    \/ CharLength(userInput, Len(userInput)) >= LENGTH_LIMIT

isComplexQuery(userInput) ==
    \/ \E keyword \in complexKeywords : InputIncludes(ToLowerCase(userInput), keyword)
    \/ CharLength(userInput, Len(userInput)) > LENGTH_LIMIT

getModelName(mode, userInput) ==
    CASE mode = "max" -> "gemini-pro-latest"
      [] mode = "gemini-pro" -> "gemini-pro-latest"
      [] mode = "gemini-flash" -> "gemini-flash-latest"
      [] OTHER -> IF isComplexQuery(userInput)
                  THEN "gemini-pro-latest" ELSE "gemini-flash-latest"

GwIdle ==
    [pc |-> "idle", attempt |-> 0, lastError |-> {}, errs |-> <<>>,
     delay |-> 0, invocations |-> 0, onRetryCalls |-> 0,
     response |-> NoResponse, userInput |-> <<>>, modelMode |-> "auto", model |-> ""]

\* Mutant: the error is thrown again after the loop, no result is built.
GwFail_Rethrow(g) == [g EXCEPT !.pc = "FAILED"]

\* The code after the loop: classify lastError and return the error result.
GwFail(g) == [g EXCEPT !.pc = "FAILED", !.response = ErrorResponse(g.lastError)]

\* Entry: the API-key check, the chart guard, then attempt 0 of the loop.
GwBegin(g, hasKey, userInput) ==
    IF ~hasKey
    THEN [g EXCEPT !.pc = "RETURNED", !.userInput = userInput,
                   !.response = TextResponse("API Key Not Configured")]
    ELSE IF ChartGuard(userInput)
    THEN [g EXCEPT !.pc = "RETURNED", !.userInput = userInput,
                   !.response = TextResponse("What type of chart would you like to generate?")]
    ELSE IF 0 <= MAX_RETRIES
    THEN [g EXCEPT !.pc = "ATTEMPTING", !.attempt = 0, !.userInput = userInput,
                   !.model = getModelName(g.modelMode, userInput)]
    ELSE GwFail([g EXCEPT !.userInput = userInput])

\* Mutant: the result is stored but the loop goes on (a missing return).
GwAttemptOk_NoReturn(g, resp) ==
    IF g.attempt < MAX_RETRIES
    THEN [g EXCEPT !.pc = "SLEEPING", !.invocations = @ + 1, !.response = resp]
    ELSE [g EXCEPT !.pc = "SUCCEEDED", !.invocations = @ + 1, !.response = resp]

\* chat.sendMessage resolved: the function call or the text is returned.
GwAttemptOk(g, resp) ==
    [g EXCEPT !.pc = "SUCCEEDED", !.invocations = @ + 1, !.response = resp]

\* chat.sendMessage threw: the catch block, then either the backoff sleep or
\* (break) the code after the loop.
GwAttemptErr(g, message, jitter) ==
    LET g1 == [g EXCEPT !.invocations = @ + 1, !.lastError = message,
                        !.errs = Append(@, message)]
    IN  IF IsRetriableError(message) /\ g.attempt < MAX_RETRIES
        THEN [g1 EXCEPT !.pc = "SLEEPING",
                        !.delay = GetRetryDelay(g.attempt, jitter),
                        !.onRetryCalls = @ + 1]
        ELSE GwFail(g1)

\* Mutant: the loop goes on without counting the attempt.
GwWake_SameAttempt(g) == [g EXCEPT !.pc = "ATTEMPTING", !.delay = 0]

\* The sleep's timer fired: continue, attempt++ and the loop test.
GwWake(g) ==
    LET n == g.attempt + 1
    IN  IF n <= MAX_RETRIES
        THEN [g EXCEPT !.pc = "ATTEMPTING", !.attempt = n, !.delay = 0]
        ELSE GwFail([g EXCEPT !.attempt = n, !.delay = 0])

ERROR_HISTORY_LIMIT == 10

\* The code after the loop pushes an entry to the stored error history and
\* keeps its last 10 entries.
LogError(store, g) ==
    LET errors == Append(store, [error |-> g.lastError, retryAttempts |-> MAX_RETRIES + 1])
    IN  IF Len(errors) > ERROR_HISTORY_LIMIT THEN Tail(errors) ELSE errors

\* The stored error history after a step of the call from before to after.
StoreAfter(store, before, after) ==
    IF before.pc # "FAILED" /\ after.pc = "FAILED" THEN LogError(store, after) ELSE store

\* What the LLM backend answers when it does answer.
LlmActions ==
    { [name |-> "sort_data", column |-> "sales", order |-> "descending"],
      [name |-> "update_cell", rowIndex |-> 0, column |-> "sales", value |-> "10"] }
LlmResponses ==
    {TextResponse("answer"), TextResponse("")} \cup {ActionResponse(a) : a \in LlmActions}

GatewayInputs ==
    { <<"sort">>, <<"Chart">>, <<"Bar", "chart">>, <<"pie", "chart">>,
      <<"charts">>, <<"online", "chart">> }

(***************************************************************************)
(* The Dataset.  A cell value is a number, a string, undefined or NaN; a   *)
(* Record maps its column names to values; the Dataset is the sequence of  *)
(* Records (JavaScript index i is position i + 1).                         *)
(***************************************************************************)
Num(n) == [kind |-> "number", num |-> n, str |-> ""]
Str(s) == [kind |-> "string", num |-> 0, str |-> s]
Undefined == [kind |-> "undefined", num |-> 0, str |-> ""]
NaN == [kind |-> "NaN", num |-> 0, str |-> ""]

\* SPREADSHEET_DATA, in its order.
SPREADSHEET_DATA ==
    << [month |-> Str("January"), product |-> Str("Product A"), region |-> Str("North"),
        sales |-> Num(15000), cost |-> Num(8000), profit |-> Num(7000)],
       [month |-> Str("January"), product |-> Str("Product B"), region |-> Str("South"),
        sales |-> Num(12000), cost |-> Num(7000), profit |-> Num(5000)],
       [month |-> Str("January"), product |-> Str("Product C"), region |-> Str("East"),
        sales |-> Num(18000), cost |-> Num(9000), profit |-> Num(9000)],
       [month |-> Str("February"), product |-> Str("Product A"), region |-> Str("North"),
        sales |-> Num(16000), cost |-> Num(8500), profit |-> Num(7500)] >>

\* The model keeps the first InitialRows rows of SPREADSHEET_DATA.
InitialRows == 2
InitialData == SubSeq(SPREADSHEET_DATA, 1, Min(InitialRows, Len(SPREADSHEET_DATA)))

\* Number(value) of a string the LLM sends.
NumberOf(s) ==
    CASE s = "10" -> Num(10)
      [] s = "20" -> Num(20)
      [] s = "15000" -> Num(15000)
      [] s = "" -> Num(0)
      [] OTHER -> NaN

\* String(value).toLowerCase() of a cell.
LowerString(v) ==
    CASE v.kind = "string" ->
            (CASE v.str = "North" -> "north"
               [] v.str = "South" -> "south"
               [] v.str = "East" -> "east"
               [] v.str = "Product A" -> "product a"
               [] v.str = "Product B" -> "product b"
               [] v.str = "Product C" -> "product c"
               [] v.str = "January" -> "january"
               [] v.str = "February" -> "february"
               [] OTHER -> v.str)
      [] v.kind = "undefined" -> "undefined"
      [] v.kind = "NaN" -> "nan"
      [] OTHER ->
            (CASE v.num = 10 -> "10" [] v.num = 20 -> "20" [] v.num = 0 -> "0"
               [] v.num = 15000 -> "15000" [] v.num = 12000 -> "12000"
               [] v.num = 18000 -> "18000" [] v.num = 16000 -> "16000"
               [] OTHER -> "number")

\* value.toLowerCase() of a filter argument.
ToLowerValue(s) ==
    CASE s = "North" -> "north"
      [] s = "NOR" -> "nor"
      [] OTHER -> s

\* haystack.includes(needle) over the lower-cased strings of the model.
StringIncludes(haystack, needle) ==
    \/ needle = ""
    \/ haystack = needle
    \/ <<haystack, needle>> \in
          { <<"north", "nor">>, <<"north", "th">>, <<"south", "th">>,
            <<"south", "sou">>, <<"product a", "product">>,
            <<"product b", "product">>, <<"product c", "product">>,
            <<"15000", "1">>, <<"12000", "1">>, <<"10", "1">> }

\* row[column]: undefined for a column the Record does not have.
Cell(row, column) == IF column \in DOMAIN row THEN row[column] ELSE Undefined

\* { ...row, [column]: value }
SetCell(row, column, value) ==
    [c \in (DOMAIN row) \cup {column} |-> IF c = column THEN value ELSE row[c]]

\* delete row[c] for every c of columnNames
DropColumns(row, columnNames) ==
    [c \in (DOMAIN row) \ columnNames |-> row[c]]

\* {} (also the spread of undefined)
EmptyRecord == [c \in {} |-> Undefined]

Range(seq) == {seq[i] : i \in 1..Len(seq)}

(***************************************************************************)
(* handleSheetAction: what each case does to sheetData                     *)
(***************************************************************************)
NumericColumns == {"sales", "cost", "profit"}

\* The strings of the model in localeCompare order.
StringOrder ==
    << "", "10", "20", "abc", "East", "February", "January", "North",
       "Product A", "Product B", "Product C", "South", "x" >>

LocaleRank(s) == CHOOSE i \in 1..Len(StringOrder) : StringOrder[i] = s

LocaleCompare(a, b) ==
    IF LocaleRank(a) < LocaleRank(b) THEN -1
    ELSE IF LocaleRank(a) > LocaleRank(b) THEN 1 ELSE 0

\* The operand of > and < when the two values are not both strings: its
\* conversion to a number.
ToNumber(v) ==
    CASE v.kind = "number" -> v
      [] v.kind = "string" -> NumberOf(v.str)
      [] OTHER -> NaN

\* The comparator of sort_data before the order is applied: localeCompare for
\* two strings, > and < otherwise (both false when an operand is NaN).
Comparison(valA, valB) ==
    IF valA.kind = "string" /\ valB.kind = "string"
    THEN LocaleCompare(valA.str, valB.str)
    ELSE LET a == ToNumber(valA)
             b == ToNumber(valB)
         IN  IF a.kind = "number" /\ b.kind = "number"
             THEN (IF a.num > b.num THEN 1 ELSE IF a.num < b.num THEN -1 ELSE 0)
             ELSE 0

SortComparator(a, b, column, order) ==
    IF order = "ascending"
    THEN Comparison(Cell(a, column), Cell(b, column))
    ELSE 0 - Comparison(Cell(a, column), Cell(b, column))

\* Mutant: r goes before the elements equal to it.
RECURSIVE InsertStable_BeforeEqual(_, _, _, _)
InsertStable_BeforeEqual(sorted, r, column, order) ==
    IF sorted = <<>> THEN <<r>>
    ELSE IF SortComparator(sorted[Len(sorted)], r, column, order) < 0
    THEN Append(sorted, r)
    ELSE Append(InsertStable_BeforeEqual(SubSeq(sorted, 1, Len(sorted) - 1), r, column, order),
                sorted[Len(sorted)])

\* Array.prototype.sort is stable: r goes after every element not greater.
RECURSIVE InsertStable(_, _, _, _)
InsertStable(sorted, r, column, order) ==
    IF sorted = <<>> THEN <<r>>
    ELSE IF SortComparator(sorted[Len(sorted)], r, column, order) <= 0
    THEN Append(sorted, r)
    ELSE Append(InsertStable(SubSeq(sorted, 1, Len(sorted) - 1), r, column, order),
                sorted[Len(sorted)])

RECURSIVE SortPrefix(_, _, _, _)
SortPrefix(data, k, column, order) ==
    IF k = 0 THEN <<>>
    ELSE InsertStable(SortPrefix(data, k - 1, column, order), data[k], column, order)

SortData(data, column, order) == SortPrefix(data, Len(data), column, order)

\* prevData.filter(pred) keeping the order
RECURSIVE FilterRows(_, _, _, _)
FilterRows(data, k, column, value) ==
    IF k = 0 THEN <<>>
    ELSE LET rest == FilterRows(data, k - 1, column, value)
         IN  IF StringIncludes(LowerString(Cell(data[k], column)), value)
             THEN Append(rest, data[k]) ELSE rest

FilterData(data, column, value) == FilterRows(data, Len(data), column, value)

\* add_row: the six fixed fields, each taken from the arguments.
AddRow(data, args) ==
    Append(data, [c \in {"month", "product", "region", "sales", "cost", "profit"} |->
                     Cell(args, c)])

\* update_cell: copy the array, copy (or create) the row, set the field, store
\* the row at rowIndex.  A negative index sets a property and no element.
UpdateCell(data, rowIndex, column, value) ==
    LET old == IF rowIndex >= 0 /\ rowIndex < Len(data) THEN data[rowIndex + 1]
               ELSE EmptyRecord
        row == SetCell(old, column,
                       IF column \in NumericColumns THEN NumberOf(value) ELSE Str(value))
    IN  IF rowIndex < 0 THEN data
        ELSE IF rowIndex < Len(data) THEN [data EXCEPT ![rowIndex + 1] = row]
        ELSE Append(data, row)

\* delete_rows: keep the rows whose index is not listed.
RECURSIVE KeepRows(_, _, _)
KeepRows(data, k, rowIndices) ==
    IF k = 0 THEN <<>>
    ELSE LET rest == KeepRows(data, k - 1, rowIndices)
         IN  IF (k - 1) \in Range(rowIndices) THEN rest ELSE Append(rest, data[k])

\* Mutant: the rows are spliced out one index after the other.
RECURSIVE SpliceRows(_, _, _)
SpliceRows(data, rowIndices, k) ==
    IF k = 0 THEN data
    ELSE LET rest == SpliceRows(data, rowIndices, k - 1)
             i == rowIndices[k]
         IN  IF i >= 0 /\ i < Len(rest)
             THEN SubSeq(rest, 1, i) \o SubSeq(rest, i + 2, Len(rest))
             ELSE rest

DeleteRows_Reindexed(data, rowIndices) == SpliceRows(data, rowIndices, Len(rowIndices))

DeleteRows(data, rowIndices) == KeepRows(data, Len(data), rowIndices)

DeleteColumns(data, columnNames) ==
    [i \in 1..Len(data) |-> DropColumns(data[i], Range(columnNames))]

\* Mutant: the default is stored as given, undefined included.
AddColumn_NoFallback(data, columnName, defaultValue) ==
    [i \in 1..Len(data) |-> SetCell(data[i], columnName, defaultValue)]

\* add_column: defaultValue || ''
AddColumn(data, columnName, defaultValue) ==
    [i \in 1..Len(data) |->
        SetCell(data[i], columnName,
                IF defaultValue.kind = "undefined" \/ defaultValue = Str("")
                THEN Str("") ELSE defaultValue)]

\* Mutant: the updates applied from the last to the first.
RECURSIVE ApplyUpdates_FirstWins(_, _, _)
ApplyUpdates_FirstWins(data, updates, k) ==
    IF k = 0 THEN data
    ELSE LET newData == ApplyUpdates_FirstWins(data, updates, k - 1)
             update == updates[Len(updates) - k + 1]
         IN  IF update.rowIndex >= 0 /\ update.rowIndex < Len(newData)
             THEN [newData EXCEPT ![update.rowIndex + 1] =
                      SetCell(@, update.column, Str(update.value))]
             ELSE newData

\* batch_update: the updates in listed order, each skipped when its row is
\* missing; the value is stored as sent.
RECURSIVE ApplyUpdates(_, _, _)
ApplyUpdates(data, updates, k) ==
    IF k = 0 THEN data
    ELSE LET newData == ApplyUpdates(data, updates, k - 1)
             update == updates[k]
         IN  IF update.rowIndex >= 0 /\ update.rowIndex < Len(newData)
             THEN [newData EXCEPT ![update.rowIndex + 1] =
                      SetCell(@, update.column, Str(update.value))]
             ELSE newData

BatchUpdate(data, updates) == ApplyUpdates(data, updates, Len(updates))

\* Mutant: calculate_aggregate returns the rows its filter kept.
SheetAfter_AggregateFilters(data, action) ==
    CASE action.name = "sort_data" -> SortData(data, action.column, action.order)
      [] action.name = "filter_data" -> FilterData(data, action.column, ToLowerValue(action.value))
      [] action.name = "add_row" -> AddRow(data, action.row)
      [] action.name = "update_cell" ->
            UpdateCell(data, action.rowIndex, action.column, action.value)
      [] action.name = "delete_rows" -> DeleteRows(data, action.rowIndices)
      [] action.name = "delete_columns" -> DeleteColumns(data, action.columnNames)
      [] action.name = "add_column" -> AddColumn(data, action.columnName, action.defaultValue)
      [] action.name = "batch_update" -> BatchUpdate(data, action.updates)
      [] action.name = "calculate_aggregate" /\ action.filterColumn # "" ->
            FilterData(data, action.filterColumn, ToLowerValue(action.filterValue))
      [] OTHER -> data

\* The Dataset after handleSheetAction(action).
SheetAfter(data, action) ==
    CASE action.name = "sort_data" -> SortData(data, action.column, action.order)
      [] action.name = "filter_data" -> FilterData(data, action.column, ToLowerValue(action.value))
      [] action.name = "add_row" -> AddRow(data, action.row)
      [] action.name = "update_cell" ->
            UpdateCell(data, action.rowIndex, action.column, action.value)
      [] action.name = "delete_rows" -> DeleteRows(data, action.rowIndices)
      [] action.name = "delete_columns" -> DeleteColumns(data, action.columnNames)
      [] action.name = "add_column" -> AddColumn(data, action.columnName, action.defaultValue)
      [] action.name = "batch_update" -> BatchUpdate(data, action.updates)
      [] OTHER -> data

\* The comparator orders the Records consistently: what is not greater is
\* transitive.  Cells that compare as NaN (undefined, NaN, a non-numeric
\* string against a number) can break this.
ConsistentComparator(data, column, order) ==
    \A i, j, k \in 1..Len(data) :
        (/\ SortComparator(data[i], data[j], column, order) <= 0
         /\ SortComparator(data[j], data[k], column, order) <= 0)
            => SortComparator(data[i], data[k], column, order) <= 0

\* The Records of data in every order.
Rearrangements(data) ==
    { [i \in 1..Len(data) |-> data[p[i]]] :
        p \in {q \in [1..Len(data) -> 1..Len(data)] :
                  \A i, j \in 1..Len(data) : i # j => q[i] # q[j]} }

\* [...prevData].sort(comparator): the stable sort when the comparator is
\* consistent; otherwise the order is the engine's own, any one of them.
SortOutcomes(data, column, order) ==
    IF ConsistentComparator(data, column, order)
    THEN {SortData(data, column, order)}
    ELSE Rearrangements(data)

\* The Datasets handleSheetAction(action) can leave.
SheetOutcomes(data, action) ==
    IF action.name = "sort_data"
    THEN SortOutcomes(data, action.column, action.order)
    ELSE {SheetAfter(data, action)}

(***************************************************************************)
(* handleSheetAction: history, confirmation turn, filter, sort and chart   *)
(***************************************************************************)
Digit(d) ==
    CASE d = 0 -> "0" [] d = 1 -> "1" [] d = 2 -> "2" [] d = 3 -> "3"
      [] d = 4 -> "4" [] d = 5 -> "5" [] d = 6 -> "6" [] d = 7 -> "7"
      [] d = 8 -> "8" [] OTHER -> "9"

\* Template-literal rendering of an integer.
RECURSIVE NumStr(_)
NumStr(n) ==
    IF n < 0 THEN "-" \o NumStr(0 - n)
    ELSE IF n < 10 THEN Digit(n)
    ELSE NumStr(n \div 10) \o Digit(n % 10)

\* columnNames.join(', ')
RECURSIVE Join(_, _)
Join(names, k) ==
    IF k = 0 THEN ""
    ELSE IF k = 1 THEN names[1]
    ELSE Join(names, k - 1) \o ", " \o names[k]

\* Template-literal rendering of a cell value.
ValueText(v) ==
    CASE v.kind = "string" -> v.str
      [] v.kind = "undefined" -> "undefined"
      [] v.kind = "NaN" -> "NaN"
      [] OTHER -> NumStr(v.num)

ChatTurn(role, content) == [role |-> role, content |-> content, feedback |-> "none"]

NoFilter == [active |-> FALSE, column |-> "", value |-> ""]
NoSort == [active |-> FALSE, column |-> "", order |-> ""]
NoChart == [chartType |-> "none", title |-> ""]


(***************************************************************************)
(* calculate_aggregate and find_top_n: what they compute and render        *)
(***************************************************************************)
Pad3(n) ==
    IF n < 10 THEN "00" \o NumStr(n) ELSE IF n < 100 THEN "0" \o NumStr(n) ELSE NumStr(n)

\* The digits of a non-negative integer in groups of three.
RECURSIVE Grouped(_)
Grouped(n) ==
    IF n < 1000 THEN NumStr(n) ELSE Grouped(n \div 1000) \o "," \o Pad3(n % 1000)

\* Up to three fraction digits, trailing zeros dropped; m is in thousandths.
Fraction(m) ==
    IF m = 0 THEN ""
    ELSE IF m % 100 = 0 THEN "." \o NumStr(m \div 100)
    ELSE IF m % 10 = 0 THEN "." \o (IF m < 100 THEN "0" ELSE "") \o NumStr(m \div 10)
    ELSE "." \o Pad3(m)

\* A computed number: kind "number" with its value in thousandths, or one of
\* "NaN", "Infinity", "-Infinity".
Milli(kind, m) == [kind |-> kind, milli |-> m]

\* Number.prototype.toLocaleString() of a computed number.
ToLocaleString(r) ==
    CASE r.kind = "NaN" -> "NaN"
      [] r.kind = "Infinity" -> "Infinity"
      [] r.kind = "-Infinity" -> "-Infinity"
      [] OTHER ->
            IF r.milli < 0
            THEN "-" \o Grouped((0 - r.milli) \div 1000) \o Fraction((0 - r.milli) % 1000)
            ELSE Grouped(r.milli \div 1000) \o Fraction(r.milli % 1000)

\* value.toLocaleString() of a cell that has a value.
CellLocaleString(v) ==
    CASE v.kind = "number" -> ToLocaleString(Milli("number", v.num * 1000))
      [] v.kind = "NaN" -> "NaN"
      [] OTHER -> v.str

\* String(cell).toLowerCase() === filterValue.toLowerCase()
AggregateMatch(row, action) ==
    (action.filterColumn # "" /\ action.filterValue # "")
        => LowerString(Cell(row, action.filterColumn)) = ToLowerValue(action.filterValue)

\* The cells of the column that are of type number (NaN is one), in the rows
\* the filter keeps.
RECURSIVE AggregateValues(_, _, _)
AggregateValues(data, k, action) ==
    IF k = 0 THEN <<>>
    ELSE LET rest == AggregateValues(data, k - 1, action)
             v == Cell(data[k], action.column)
         IN  IF AggregateMatch(data[k], action) /\ v.kind \in {"number", "NaN"}
             THEN Append(rest, v) ELSE rest

RECURSIVE SumOf(_, _)
SumOf(values, k) == IF k = 0 THEN 0 ELSE SumOf(values, k - 1) + values[k].num

\* The thousandths of a / b rounded half up (a >= 0, b > 0).
Quotient(a, b) == (2 * a * 1000 + b) \div (2 * b)

\* The result of the operation's case; an unknown operation leaves 0.
AggregateResult(data, action) ==
    LET values == AggregateValues(data, Len(data), action)
        nums == {values[i].num : i \in 1..Len(values)}
        hasNaN == \E i \in 1..Len(values) : values[i].kind = "NaN"
        sum == SumOf(values, Len(values))
    IN  CASE action.operation = "sum" ->
                IF hasNaN THEN Milli("NaN", 0) ELSE Milli("number", sum * 1000)
          [] action.operation = "average" ->
                IF hasNaN \/ values = <<>> THEN Milli("NaN", 0)
                ELSE Milli("number", Quotient(sum, Len(values)))
          [] action.operation = "min" ->
                IF hasNaN THEN Milli("NaN", 0)
                ELSE IF values = <<>> THEN Milli("Infinity", 0)
                ELSE Milli("number", 1000 * (CHOOSE m \in nums : \A x \in nums : m <= x))
          [] action.operation = "max" ->
                IF hasNaN THEN Milli("NaN", 0)
                ELSE IF values = <<>> THEN Milli("-Infinity", 0)
                ELSE Milli("number", 1000 * (CHOOSE m \in nums : \A x \in nums : m >= x))
          [] action.operation = "count" -> Milli("number", 1000 * Len(values))
          [] OTHER -> Milli("number", 0)

UpperOf(operation) ==
    CASE operation = "sum" -> "SUM"
      [] operation = "average" -> "AVERAGE"
      [] operation = "min" -> "MIN"
      [] operation = "max" -> "MAX"
      [] operation = "count" -> "COUNT"
      [] OTHER -> operation

FilterText(action) ==
    IF action.filterColumn # ""
    THEN " (filtered by " \o action.filterColumn \o "="
         \o (IF action.filterValue = "" THEN "undefined" ELSE action.filterValue) \o ")"
    ELSE ""

\* find_top_n's comparator b[col] - a[col]; a NaN difference counts as 0.
TopComparator(a, b, column) ==
    LET x == ToNumber(Cell(a, column))
        y == ToNumber(Cell(b, column))
    IN  IF x.kind = "number" /\ y.kind = "number" THEN y.num - x.num ELSE 0

RECURSIVE InsertTop(_, _, _)
InsertTop(sorted, r, column) ==
    IF sorted = <<>> THEN <<r>>
    ELSE IF TopComparator(sorted[Len(sorted)], r, column) <= 0
    THEN Append(sorted, r)
    ELSE Append(InsertTop(SubSeq(sorted, 1, Len(sorted) - 1), r, column),
                sorted[Len(sorted)])

RECURSIVE SortTop(_, _, _)
SortTop(data, k, column) ==
    IF k = 0 THEN <<>> ELSE InsertTop(SortTop(data, k - 1, column), data[k], column)

\* [...currentData].sort(...).slice(0, n)
TopN(data, column, n) ==
    SubSeq(SortTop(data, Len(data), column), 1, Min(n, Len(data)))

\* undefined.toLocaleString() throws inside the updater.
TopNThrows(data, action) ==
    \E i \in 1..Len(TopN(data, action.column, action.n)) :
        Cell(TopN(data, action.column, action.n)[i], action.column).kind = "undefined"

RECURSIVE TopList(_, _, _)
TopList(rows, k, column) ==
    IF k = 0 THEN ""
    ELSE (IF k = 1 THEN "" ELSE TopList(rows, k - 1, column) \o "\n")
         \o NumStr(k) \o ". " \o ValueText(Cell(rows[k], "product"))
         \o " (" \o ValueText(Cell(rows[k], "region")) \o ") - " \o column \o ": "
         \o CellLocaleString(Cell(rows[k], column))

\* The case of the switch throws before it logs and confirms.
Throws(data, action) == action.name = "find_top_n" /\ TopNThrows(data, action)

\* The cases that only log their arguments to the console.
NoOpNames == {"pivot_table", "create_chart", "format_cells", "merge_cells", "apply_formula"}

\* The cases of the switch that log and confirm (all but default).
HandledNames ==
    {"sort_data", "calculate_aggregate", "filter_data", "add_row", "update_cell",
     "find_top_n", "generate_chart", "delete_rows", "delete_columns", "clear_filter",
     "add_column", "batch_update", "rename_sheet", "duplicate_sheet"} \cup NoOpNames

\* useState('Sheet1'): handleSheetAction is memoized with no dependencies, so
\* the activeSheet it reads is the one of the first render.
MountedActiveSheet == "Sheet1"

\* newSheets.indexOf(activeSheet) as a position, 0 for -1.
ActiveSheetIndex(names) ==
    IF \E k \in 1..Len(names) : names[k] = MountedActiveSheet
    THEN CHOOSE k \in 1..Len(names) :
            /\ names[k] = MountedActiveSheet
            /\ \A j \in 1..(k - 1) : names[j] # MountedActiveSheet
    ELSE 0

\* rename_sheet does nothing when the sheet it looks for is not in the list.
RenameSkipped(action) == action.name = "rename_sheet" /\ ActiveSheetIndex(sheets) = 0

\* The case runs to its addToHistory and setMessages calls.
Confirms(data, action) ==
    action.name \in HandledNames /\ ~Throws(data, action) /\ ~RenameSkipped(action)

SheetsAfter(names, action) ==
    CASE action.name = "rename_sheet" /\ ActiveSheetIndex(names) # 0 ->
            [names EXCEPT ![ActiveSheetIndex(names)] = action.newName]
      [] action.name = "duplicate_sheet" -> Append(names, action.newName)
      [] OTHER -> names

ActiveSheetAfter(active, names, action) ==
    CASE action.name = "rename_sheet" /\ ActiveSheetIndex(names) # 0 -> action.newName
      [] action.name = "duplicate_sheet" -> action.newName
      [] OTHER -> active

\* What the cases that only log say: description, notification, confirmation.
NoOpTexts(name) ==
    CASE name = "pivot_table" ->
            <<"Generated a pivot table", "Pivot table generated", "Generated a pivot table.">>
      [] name = "create_chart" ->
            <<"Generated a chart", "Chart generated", "Generated a chart.">>
      [] name = "format_cells" ->
            <<"Formatted cells", "Cells formatted", "Formatted cells.">>
      [] name = "merge_cells" ->
            <<"Merged cells", "Cells merged", "Merged cells.">>
      [] name = "apply_formula" ->
            <<"Applied a formula", "Formula applied", "Applied a formula.">>

\* The (action, description) pair the case passes to addToHistory.
HistoryEntryOf(data, action) ==
    CASE action.name = "sort_data" ->
            [action |-> "sort",
             description |-> "Sorted by " \o action.column \o " " \o action.order]
      [] action.name = "filter_data" ->
            [action |-> "filter",
             description |-> "Filtered " \o action.column \o " by \"" \o action.value \o "\""]
      [] action.name = "add_row" ->
            [action |-> "add_row",
             description |-> "Added " \o ValueText(Cell(action.row, "product"))]
      [] action.name = "update_cell" ->
            [action |-> "update",
             description |-> "Updated row " \o NumStr(action.rowIndex + 1)]
      [] action.name = "generate_chart" ->
            [action |-> "generate_chart",
             description |-> "Generated a " \o action.chartType \o " chart"]
      [] action.name = "delete_rows" ->
            [action |-> "delete_rows",
             description |-> "Deleted " \o NumStr(Len(action.rowIndices)) \o " rows"]
      [] action.name = "delete_columns" ->
            [action |-> "delete_columns",
             description |-> "Deleted columns: "
                             \o Join(action.columnNames, Len(action.columnNames))]
      [] action.name = "clear_filter" ->
            [action |-> "clear_filter", description |-> "Cleared all filters"]
      [] action.name = "add_column" ->
            [action |-> "add_column",
             description |-> "Added column: " \o action.columnName]
      [] action.name = "batch_update" ->
            [action |-> "batch_update",
             description |-> "Updated " \o NumStr(Len(action.updates)) \o " cells"]
      [] action.name = "calculate_aggregate" ->
            [action |-> "calculate",
             description |-> action.operation \o " of " \o action.column
                             \o FilterText(action)]
      [] action.name = "find_top_n" ->
            [action |-> "top_n",
             description |-> "Found top " \o NumStr(action.n) \o " by " \o action.column]
      [] action.name = "rename_sheet" ->
            [action |-> "rename_sheet",
             description |-> "Renamed sheet to " \o action.newName]
      [] action.name = "duplicate_sheet" ->
            [action |-> "duplicate_sheet",
             description |-> "Duplicated sheet to " \o action.newName]
      [] action.name \in NoOpNames ->
            [action |-> action.name, description |-> NoOpTexts(action.name)[1]]

\* The content of the assistant turn the case appends.
ConfirmationOf(data, action) ==
    CASE action.name = "sort_data" ->
            "Sorted by " \o action.column \o " in " \o action.order \o " order."
      [] action.name = "filter_data" ->
            "Filtered data: Found "
            \o NumStr(Len(FilterData(data, action.column, ToLowerValue(action.value))))
            \o " rows where " \o action.column \o " contains \"" \o action.value \o "\"."
      [] action.name = "add_row" ->
            "Added new row: " \o ValueText(Cell(action.row, "product"))
            \o " in " \o ValueText(Cell(action.row, "region"))
      [] action.name = "update_cell" ->
            "Updated row " \o NumStr(action.rowIndex + 1) \o ": "
            \o action.column \o " = " \o action.value
      [] action.name = "generate_chart" ->
            "Generated a " \o action.chartType \o " chart titled \"" \o action.title \o "\"."
      [] action.name = "delete_rows" ->
            "Deleted " \o NumStr(Len(action.rowIndices)) \o " rows."
      [] action.name = "delete_columns" ->
            "Deleted columns: " \o Join(action.columnNames, Len(action.columnNames)) \o "."
      [] action.name = "clear_filter" -> "Cleared all filters."
      [] action.name = "add_column" -> "Added column: " \o action.columnName \o "."
      [] action.name = "batch_update" ->
            "Updated " \o NumStr(Len(action.updates)) \o " cells."
      [] action.name = "calculate_aggregate" ->
            UpperOf(action.operation) \o " of " \o action.column \o FilterText(action)
            \o ": " \o ToLocaleString(AggregateResult(data, action))
      [] action.name = "find_top_n" ->
            "Top " \o NumStr(action.n) \o " by " \o action.column \o ":\n\n"
            \o TopList(TopN(data, action.column, action.n),
                       Len(TopN(data, action.column, action.n)), action.column)
      [] action.name = "rename_sheet" -> "Renamed sheet to " \o action.newName \o "."
      [] action.name = "duplicate_sheet" -> "Duplicated sheet to " \o action.newName \o "."
      [] action.name \in NoOpNames -> NoOpTexts(action.name)[3]

\* The text the case passes to showNotification ("" where it shows none).
NotificationOf(data, action) ==
    CASE action.name = "sort_data" -> "Sorted by " \o action.column \o " " \o action.order
      [] action.name = "filter_data" ->
            "Filtered: "
            \o NumStr(Len(FilterData(data, action.column, ToLowerValue(action.value))))
            \o " rows found"
      [] action.name = "add_row" -> "Row added successfully"
      [] action.name = "update_cell" -> "Cell updated"
      [] action.name = "generate_chart" -> "Chart generated successfully"
      [] action.name = "delete_rows" -> NumStr(Len(action.rowIndices)) \o " rows deleted"
      [] action.name = "delete_columns" ->
            "Deleted columns: " \o Join(action.columnNames, Len(action.columnNames))
      [] action.name = "clear_filter" -> "Filters cleared"
      [] action.name = "add_column" -> "Added column: " \o action.columnName
      [] action.name = "batch_update" ->
            "Updated " \o NumStr(Len(action.updates)) \o " cells"
      [] action.name = "rename_sheet" /\ ~RenameSkipped(action) ->
            "Renamed sheet to " \o action.newName
      [] action.name = "duplicate_sheet" -> "Duplicated sheet to " \o action.newName
      [] action.name \in NoOpNames -> NoOpTexts(action.name)[2]
      [] OTHER -> ""

HISTORY_LIMIT == 50

\* addToHistory: the entry goes first, the log keeps its newest 50 entries.
AddToHistory(log, entry) ==
    SubSeq(<<entry>> \o log, 1, Min(HISTORY_LIMIT, Len(log) + 1))

HistoryAfter(log, data, action) ==
    IF Confirms(data, action)
    THEN AddToHistory(log, HistoryEntryOf(data, action)) ELSE log

HistoryIndexAfter(index, data, action) ==
    IF Confirms(data, action) THEN -1 ELSE index

MessagesAfter(turns, data, action) ==
    IF Confirms(data, action)
    THEN Append(turns, ChatTurn("assistant", <<ConfirmationOf(data, action)>>))
    ELSE turns

SortStateAfter(state, action) ==
    IF action.name = "sort_data"
    THEN [active |-> TRUE, column |-> action.column,
          order |-> IF action.order = "ascending" THEN "asc" ELSE "desc"]
    ELSE state

FilterStateAfter(state, action) ==
    CASE action.name = "filter_data" ->
            [active |-> TRUE, column |-> action.column, value |-> action.value]
      [] action.name = "clear_filter" -> NoFilter
      [] OTHER -> state

ChartDataAfter(chart, action) ==
    IF action.name = "generate_chart"
    THEN [chartType |-> action.chartType, title |-> action.title]
    ELSE chart

(***************************************************************************)
(* The Actions the model draws from (the LLM's function calls)             *)
(***************************************************************************)
SortActions ==
    { [name |-> "sort_data", column |-> c, order |-> o] :
        c \in {"sales", "product"}, o \in {"ascending", "descending"} }

FilterActions ==
    { [name |-> "filter_data", column |-> "region", value |-> v] : v \in {"North", "x"} }

FullRow ==
    [month |-> Str("January"), product |-> Str("Product C"), region |-> Str("East"),
     sales |-> Num(15000), cost |-> Num(9000), profit |-> Num(6000)]

AddRowActions ==
    { [name |-> "add_row", row |-> FullRow],
      [name |-> "add_row", row |-> DropColumns(FullRow, {"cost"})] }

\* Row indices around the ends of the Dataset: -1, 0 and length.
UpdateCellActions(data) ==
    { [name |-> "update_cell", rowIndex |-> i, column |-> c, value |-> "10"] :
        i \in {-1, 0, Len(data)}, c \in {"sales", "notes"} }

DeleteRowsActions ==
    { [name |-> "delete_rows", rowIndices |-> r] : r \in {<<0>>, <<1, 0>>, <<0, 0>>, <<7>>} }

DeleteColumnsActions ==
    { [name |-> "delete_columns", columnNames |-> n] : n \in {<<"cost">>, <<"nope">>} }

AddColumnActions ==
    { [name |-> "add_column", columnName |-> "cost", defaultValue |-> Undefined],
      [name |-> "add_column", columnName |-> "cost", defaultValue |-> Str("10")],
      [name |-> "add_column", columnName |-> "notes", defaultValue |-> Str("x")] }

Update(rowIndex, column, value) ==
    [rowIndex |-> rowIndex, column |-> column, value |-> value]

BatchUpdateActions(data) ==
    { [name |-> "batch_update", updates |-> u] :
        u \in { << Update(0, "sales", "10"), Update(0, "sales", "20") >>,
                << Update(0, "sales", "10"), Update(Len(data), "sales", "20") >>,
                << Update(Len(data), "sales", "10") >> } }

\* Cases of handleSheetAction that do not touch the Dataset.
ReadOnlyActions ==
    { [name |-> "generate_chart", chartType |-> "bar", title |-> "Sales"],
      [name |-> "clear_filter"] }

AggregateActions ==
    { [name |-> "calculate_aggregate", column |-> "sales", operation |-> o,
       filterColumn |-> f[1], filterValue |-> f[2]] :
        o \in {"sum", "average", "min"},
        f \in { <<"", "">>, <<"region", "North">>, <<"region", "x">> } }

TopNActions ==
    { [name |-> "find_top_n", column |-> c, n |-> n] :
        c \in {"sales", "product"}, n \in {1, 5} }

SheetActions ==
    { [name |-> "rename_sheet", newName |-> "Q1"],
      [name |-> "duplicate_sheet", newName |-> "Copy"] }

NoOpActions == { [name |-> n] : n \in NoOpNames }

\* A function call whose name no case of the switch matches.
UnknownActions == { [name |-> "analyze_data"] }

(***************************************************************************)
(* SpecEngine: Actions applied one after the other by handleSheetAction    *)
(***************************************************************************)
MaxActions == 2

Greeting == ChatTurn("assistant", <<"Hello! I'm your AI data analyst.">>)
NoContext == [actions |-> <<>>, lastQuery |-> <<>>]

\* The App's state after construction (the useState initial values).
InitApp ==
    /\ sheetData = InitialData
    /\ filterState = NoFilter
    /\ sortState = NoSort
    /\ chartData = NoChart
    /\ messages = <<Greeting>>
    /\ isLoading = FALSE
    /\ history = <<>>
    /\ historyIndex = -1
    /\ conversationContext = NoContext
    /\ sheets = <<"Sheet1", "Sheet2">>
    /\ activeSheet = "Sheet1"
    /\ calls = <<>>
    /\ lastEvent = "init"
    /\ lastAction = NoAction
    /\ prevData = InitialData
    /\ applied = 0
    /\ sends = 0
    /\ events = 0

GatewayIdle ==
    /\ apiKey = TRUE
    /\ gw = GwIdle
    /\ errorHistory = <<>>

InitEngine == GatewayIdle /\ InitApp

\* handleSheetAction(action): the queued state updates taken together.
SheetActionEffect(action, turns, newData) ==
    /\ sheetData' = newData
    /\ sortState' = SortStateAfter(sortState, action)
    /\ filterState' = FilterStateAfter(filterState, action)
    /\ chartData' = ChartDataAfter(chartData, action)
    /\ history' = HistoryAfter(history, sheetData, action)
    /\ historyIndex' = HistoryIndexAfter(historyIndex, sheetData, action)
    /\ messages' = MessagesAfter(turns, sheetData, action)
    /\ sheets' = SheetsAfter(sheets, action)
    /\ activeSheet' = ActiveSheetAfter(activeSheet, sheets, action)
    /\ lastAction' = action
    /\ prevData' = sheetData
    /\ applied' = applied + 1

HandleSheetAction(action) ==
    /\ applied < MaxActions
    /\ \E newData \in SheetOutcomes(sheetData, action) :
          SheetActionEffect(action, messages, newData)
    /\ lastEvent' = "handleSheetAction"
    /\ UNCHANGED <<gwVars, isLoading, conversationContext, calls, sends, events>>

NextEngine ==
    \/ \E a \in SortActions : HandleSheetAction(a)
    \/ \E a \in FilterActions : HandleSheetAction(a)
    \/ \E a \in AddRowActions : HandleSheetAction(a)
    \/ \E a \in UpdateCellActions(sheetData) : HandleSheetAction(a)
    \/ \E a \in DeleteRowsActions : HandleSheetAction(a)
    \/ \E a \in DeleteColumnsActions : HandleSheetAction(a)
    \/ \E a \in AddColumnActions : HandleSheetAction(a)
    \/ \E a \in BatchUpdateActions(sheetData) : HandleSheetAction(a)
    \/ \E a \in ReadOnlyActions : HandleSheetAction(a)
    \/ \E a \in AggregateActions : HandleSheetAction(a)
    \/ \E a \in TopNActions : HandleSheetAction(a)
    \/ \E a \in SheetActions : HandleSheetAction(a)
    \/ \E a \in NoOpActions : HandleSheetAction(a)
    \/ \E a \in UnknownActions : HandleSheetAction(a)

SpecEngine == InitEngine /\ [][NextEngine]_vars

(***************************************************************************)
(* SpecGateway: one call of getAIResponse                                  *)
(***************************************************************************)
InitGateway ==
    /\ apiKey \in BOOLEAN
    /\ gw = GwIdle
    /\ errorHistory = <<>>
    /\ InitApp

GetAIResponse ==
    /\ gw.pc = "idle"
    /\ \E userInput \in GatewayInputs : gw' = GwBegin(gw, apiKey, userInput)
    /\ errorHistory' = StoreAfter(errorHistory, gw, gw')
    /\ UNCHANGED <<apiKey, dataVars, chatVars, lastEvent>>

AttemptSucceeds ==
    /\ gw.pc = "ATTEMPTING"
    /\ \E resp \in LlmResponses : gw' = GwAttemptOk(gw, resp)
    /\ errorHistory' = StoreAfter(errorHistory, gw, gw')
    /\ UNCHANGED <<apiKey, dataVars, chatVars, lastEvent>>

AttemptFails ==
    /\ gw.pc = "ATTEMPTING"
    /\ \E message \in ErrorMessages, jitter \in JitterSamples :
          gw' = GwAttemptErr(gw, message, jitter)
    /\ errorHistory' = StoreAfter(errorHistory, gw, gw')
    /\ UNCHANGED <<apiKey, dataVars, chatVars, lastEvent>>

BackoffElapsed ==
    /\ gw.pc = "SLEEPING"
    /\ gw' = GwWake(gw)
    /\ errorHistory' = StoreAfter(errorHistory, gw, gw')
    /\ UNCHANGED <<apiKey, dataVars, chatVars, lastEvent>>

NextGateway ==
    \/ GetAIResponse
    \/ AttemptSucceeds
    \/ AttemptFails
    \/ BackoffElapsed

SpecGateway == InitGateway /\ [][NextGateway]_vars

(***************************************************************************)
(* SpecChat: the App's handlers around handleSendMessage                   *)
(***************************************************************************)
MaxSends == 2
MaxEvents == 1

\* String.prototype.trim over the tokens of an utterance.
RECURSIVE TrimStart(_)
TrimStart(u) == IF u # <<>> /\ Head(u) = " " THEN TrimStart(Tail(u)) ELSE u

RECURSIVE TrimEnd(_)
TrimEnd(u) ==
    IF u # <<>> /\ u[Len(u)] = " " THEN TrimEnd(SubSeq(u, 1, Len(u) - 1)) ELSE u

Trim(u) == TrimEnd(TrimStart(u))

IsBlank(userInput) == Trim(userInput) = <<>>
\* Mutant: the comparison without toLowerCase.
IsReset_CaseSensitive(userInput) == Trim(userInput) = <<"reset">>

IsReset(userInput) == Trim(ToLowerCase(userInput)) = <<"reset">>

RemoveAt(seq, i) == SubSeq(seq, 1, i - 1) \o SubSeq(seq, i + 1, Len(seq))

\* What the chat panel's textarea may hold, the palette's commands and the
\* context menu's prompt.
ChatInputs == { <<"sort">>, <<"Chart">>, <<" ", "Reset">> }
PaletteCommands == { <<"sort by sales ascending">>, <<"reset">> }
ContextMenuPrompts == { <<"Explain this selected data">> }

ChatLlmResponses ==
    { TextResponse("answer"),
      ActionResponse([name |-> "sort_data", column |-> "sales", order |-> "descending"]),
      ActionResponse([name |-> "delete_rows", rowIndices |-> <<0>>]) }
ChatErrorMessages == { {}, {"503"}, {"quota"} }
ChatJitter == {0}

\* The lines of handleSendMessage after the await, on the path without an
\* exception: the assistant turn is set on top of newMessages, the action is
\* applied and remembered, isLoading is cleared.
Completion(call, aiResponse) ==
    LET updatedMessages ==
            Append(call.newMessages, ChatTurn("assistant", <<aiResponse.text>>))
    IN  /\ IF aiResponse.action # NoAction
           THEN /\ \E newData \in SheetOutcomes(sheetData, aiResponse.action) :
                      SheetActionEffect(aiResponse.action, updatedMessages, newData)
                /\ conversationContext' =
                      [conversationContext EXCEPT
                          !.actions = Append(@, aiResponse.action),
                          !.lastQuery = call.userInput]
           ELSE /\ messages' = updatedMessages
                /\ UNCHANGED <<sheetData, sortState, filterState, history,
                               historyIndex, sheets, activeSheet, lastAction,
                               prevData, applied,
                               conversationContext>>
        /\ isLoading' = FALSE

\* handleSendMessage(userInput) up to its await (or its return).
HandleSendMessage(userInput, event) ==
    /\ sends < MaxSends
    /\ lastEvent' = event
    /\ UNCHANGED <<gwVars, events>>
    /\ IF IsBlank(userInput)
       THEN UNCHANGED <<dataVars, chatVars>>
       ELSE IF IsReset(userInput)
       THEN /\ chartData' = NoChart
            /\ sheetData' = InitialData
            /\ filterState' = NoFilter
            /\ sortState' = NoSort
            /\ history' = AddToHistory(history,
                             [action |-> "reset", description |-> "Reset data to original"])
            /\ historyIndex' = -1
            /\ messages' = messages \o
                   << ChatTurn("user", userInput),
                      ChatTurn("assistant", <<"Data reset to original state.">>) >>
            /\ sends' = sends + 1
            /\ UNCHANGED <<isLoading, conversationContext, calls, sheets, activeSheet,
                           lastAction, prevData, applied>>
       ELSE LET newMessages == Append(messages, ChatTurn("user", userInput))
                call == [id |-> sends + 1,
                         userInput |-> userInput, newMessages |-> newMessages,
                         dataAtSend |-> sheetData,
                         gw |-> GwBegin(GwIdle, apiKey, userInput)]
            IN  /\ sends' = sends + 1
                /\ IF call.gw.pc \in {"RETURNED", "FAILED"}
                   THEN /\ Completion(call, call.gw.response)
                        /\ chartData' = NoChart
                        /\ UNCHANGED calls
                   ELSE /\ messages' = newMessages
                        /\ isLoading' = TRUE
                        /\ chartData' = NoChart
                        /\ calls' = Append(calls, call)
                        /\ UNCHANGED <<sheetData, filterState, sortState, history,
                                       historyIndex, sheets, activeSheet, lastAction,
                               prevData, applied,
                                       conversationContext>>

\* getAIResponse resolved for calls[i]: the rest of handleSendMessage runs.
Resolve(i, g) ==
    /\ Completion(calls[i], g.response)
    /\ chartData' = ChartDataAfter(chartData, g.response.action)
    /\ calls' = RemoveAt(calls, i)

Pending(i, g) ==
    /\ calls' = [calls EXCEPT ![i].gw = g]
    /\ UNCHANGED <<dataVars, messages, isLoading, conversationContext>>

\* AIAssistantPanel.handleSend: the textarea's text, unless empty or loading.
ChatPanelSend ==
    \E userInput \in ChatInputs :
        /\ ~IsBlank(userInput)
        /\ ~isLoading
        /\ HandleSendMessage(userInput, "handleSend")

\* CommandPalette.onCommand
PaletteCommand ==
    \E cmd \in PaletteCommands : HandleSendMessage(cmd, "onCommand")

\* onRegenerate(messageId): resend the user turn before the message.
Regenerate ==
    \E messageIndex \in 0..(Len(messages) - 1) :
        /\ messageIndex > 0
        /\ messages[messageIndex].role = "user"
        /\ HandleSendMessage(messages[messageIndex].content, "onRegenerate")

\* handleExplainSelection / handleGenerateFormula / handleSummarizeSelection
ContextMenuPrompt ==
    \E prompt \in ContextMenuPrompts : HandleSendMessage(prompt, "contextMenu")

\* chat.sendMessage resolved for the i-th pending call.
CallAttemptSucceeds ==
    \E i \in 1..Len(calls) :
        /\ calls[i].gw.pc = "ATTEMPTING"
        /\ \E resp \in ChatLlmResponses : Resolve(i, GwAttemptOk(calls[i].gw, resp))
        /\ lastEvent' = "response"
        /\ UNCHANGED <<gwVars, sends, events>>

\* chat.sendMessage threw for the i-th pending call.
CallAttemptFails ==
    \E i \in 1..Len(calls) :
        /\ calls[i].gw.pc = "ATTEMPTING"
        /\ \E message \in ChatErrorMessages, jitter \in ChatJitter :
              LET g == GwAttemptErr(calls[i].gw, message, jitter)
              IN  /\ IF g.pc = "FAILED" THEN Resolve(i, g) ELSE Pending(i, g)
                  /\ errorHistory' = StoreAfter(errorHistory, calls[i].gw, g)
        /\ lastEvent' = "failure"
        /\ UNCHANGED <<apiKey, gw, sends, events>>

\* The backoff timer of the i-th pending call fired.
CallBackoffElapsed ==
    \E i \in 1..Len(calls) :
        /\ calls[i].gw.pc = "SLEEPING"
        /\ LET g == GwWake(calls[i].gw)
           IN  /\ IF g.pc = "FAILED" THEN Resolve(i, g) ELSE Pending(i, g)
               /\ errorHistory' = StoreAfter(errorHistory, calls[i].gw, g)
        /\ lastEvent' = "backoff"
        /\ UNCHANGED <<apiKey, gw, sends, events>>

\* Sidebar.onReset
SidebarReset ==
    /\ events < MaxEvents
    /\ events' = events + 1
    /\ sheetData' = InitialData
    /\ filterState' = NoFilter
    /\ sortState' = NoSort
    /\ history' = AddToHistory(history, [action |-> "reset", description |-> "Reset data"])
    /\ historyIndex' = -1
    /\ messages' = Append(messages, ChatTurn("assistant", <<"Data reset.">>))
    /\ lastEvent' = "onReset"
    /\ UNCHANGED <<gwVars, chartData, sheets, activeSheet, lastAction, prevData,
                   applied, isLoading,
                   conversationContext, calls, sends>>

\* AIAssistantPanel.onNewChat
NewChat ==
    /\ events < MaxEvents
    /\ events' = events + 1
    /\ messages' = <<Greeting>>
    /\ chartData' = NoChart
    /\ lastEvent' = "onNewChat"
    /\ UNCHANGED <<gwVars, sheetData, filterState, sortState, history, historyIndex,
                   sheets, activeSheet, lastAction, prevData, applied, isLoading,
                   conversationContext,
                   calls, sends>>

\* onFeedback(messageId, feedback): tag the turn whose id is msg-<index>.
Feedback ==
    /\ events < MaxEvents
    /\ events' = events + 1
    /\ \E messageIndex \in 0..(Len(messages) - 1), feedback \in {"positive", "negative"} :
          messages' = [messages EXCEPT ![messageIndex + 1].feedback = feedback]
    /\ lastEvent' = "onFeedback"
    /\ UNCHANGED <<gwVars, dataVars, isLoading, conversationContext, calls, sends>>

InitChat == GatewayIdle /\ InitApp

NextChat ==
    \/ ChatPanelSend
    \/ PaletteCommand
    \/ Regenerate
    \/ ContextMenuPrompt
    \/ CallAttemptSucceeds
    \/ CallAttemptFails
    \/ CallBackoffElapsed
    \/ SidebarReset
    \/ NewChat
    \/ Feedback

SpecChat == InitChat /\ [][NextChat]_vars

\* Every LLM call returns or fails and every backoff timer fires.
SpecChatLive ==
    /\ SpecChat
    /\ WF_vars(CallAttemptSucceeds \/ CallAttemptFails)
    /\ WF_vars(CallBackoffElapsed)

(***************************************************************************)
(* SpecModel: getAIResponse entered once with each model mode and a range   *)
(* of utterances, up to the model chosen for its first attempt.             *)
(***************************************************************************)
ModelModes == {"auto", "max", "gemini-pro", "gemini-flash"}

Text50 == "lorem ipsum dolor sit amet consectetur adipiscing "
Text200 == Text50 \o Text50 \o Text50 \o Text50

ModelInputs ==
    { <<"sort">>, <<"total">>, <<"Analyze">>, <<"analyzer">>, <<"trending">>,
      <<"What if">>, <<"PREDICT">>, <<"deeply">>, <<"forecast", " ", Text200>>,
      <<Text200>>, <<Text200, " ">>, <<Text200, "s">>, <<Text50, Text50>>,
      <<"Bar", "chart">>, <<"pie", "chart">> }
    \cup { <<keyword>> : keyword \in complexKeywords }

InitModel ==
    /\ apiKey = TRUE
    /\ errorHistory = <<>>
    /\ \E mode \in ModelModes : gw = [GwIdle EXCEPT !.modelMode = mode]
    /\ InitApp

SelectModel ==
    /\ gw.pc = "idle"
    /\ \E userInput \in ModelInputs : gw' = GwBegin(gw, apiKey, userInput)
    /\ UNCHANGED <<apiKey, errorHistory, dataVars, chatVars, lastEvent>>

SpecModel == InitModel /\ [][SelectModel]_vars

(***************************************************************************)
(* SpecHistory: a long run of logged Actions with undo and redo.  The run   *)
(* starts with up to MaxPrefix Dataset-changing Actions and goes on with    *)
(* clear_filter, so that the log passes its limit of 50 entries.            *)
(***************************************************************************)
MaxPrefix == 2
MaxLogged == 51

PrefixActions ==
    { [name |-> "sort_data", column |-> "sales", order |-> "descending"],
      [name |-> "delete_rows", rowIndices |-> <<0>>],
      [name |-> "update_cell", rowIndex |-> 0, column |-> "sales", value |-> "10"] }

LogAction(action) ==
    /\ applied < MaxLogged
    /\ \E newData \in SheetOutcomes(sheetData, action) :
          SheetActionEffect(action, messages, newData)
    /\ lastEvent' = "handleSheetAction"
    /\ UNCHANGED <<gwVars, isLoading, conversationContext, calls, sends, events>>

PrefixAction ==
    /\ applied < MaxPrefix
    /\ \E a \in PrefixActions : LogAction(a)

RepeatedAction ==
    /\ applied >= MaxPrefix
    /\ LogAction([name |-> "clear_filter"])

\* Mutant: undo allowed one step further.
Undo_PastEnd ==
    /\ historyIndex < Len(history)
    /\ historyIndex' = historyIndex + 1
    /\ lastEvent' = "undo"
    /\ UNCHANGED <<gwVars, chatVars, sheetData, filterState, sortState, chartData,
                   history, sheets, activeSheet, lastAction, prevData, applied>>

\* undo(): moves the cursor and notifies 'Undo successful'.
Undo ==
    /\ historyIndex < Len(history) - 1
    /\ historyIndex' = historyIndex + 1
    /\ lastEvent' = "undo"
    /\ UNCHANGED <<gwVars, chatVars, sheetData, filterState, sortState, chartData,
                   history, sheets, activeSheet, lastAction, prevData, applied>>

\* redo(): moves the cursor back and notifies 'Redo successful'.
Redo ==
    /\ historyIndex > 0
    /\ historyIndex' = historyIndex - 1
    /\ lastEvent' = "redo"
    /\ UNCHANGED <<gwVars, chatVars, sheetData, filterState, sortState, chartData,
                   history, sheets, activeSheet, lastAction, prevData, applied>>

NextHistory ==
    \/ PrefixAction
    \/ RepeatedAction
    \/ Undo
    \/ Redo

SpecHistory == InitEngine /\ [][NextHistory]_vars

(***************************************************************************)
(* Properties of getAIResponse (SpecGateway)                               *)
(***************************************************************************)
RetriableSignatures == {"503", "overloaded", "429", "rate limit"}
HasRetriableSignature(message) == message \cap RetriableSignatures # {}

GwFailedAttempt == gw.pc = "ATTEMPTING" /\ Len(gw'.errs) = Len(gw.errs) + 1
GwAnsweredAttempt ==
    gw.pc = "ATTEMPTING" /\ gw'.errs = gw.errs /\ gw'.invocations = gw.invocations + 1

\* C2: the retry state machine only visits ATTEMPTING(n) for n in 0..3, the
\* LLM backend is invoked at most 4 times, and a call that entered the loop
\* has either no result yet or exactly one of the results SUCCEEDED (a
\* response without error) and FAILED (a classified error, no action).
C2_RetryStateMachine ==
    /\ gw.pc \in {"idle", "ATTEMPTING", "SLEEPING", "SUCCEEDED", "FAILED", "RETURNED"}
    /\ gw.attempt \in 0..3
    /\ gw.invocations <= 4
    /\ gw.pc = "ATTEMPTING" => gw.invocations = gw.attempt
    /\ gw.pc \in {"SLEEPING", "SUCCEEDED", "FAILED"} => gw.invocations = gw.attempt + 1
    /\ gw.pc \in {"idle", "RETURNED"} => gw.invocations = 0
    /\ gw.pc \in {"idle", "ATTEMPTING", "SLEEPING"} <=> gw.response = NoResponse
    /\ gw.pc = "SUCCEEDED" => gw.response.error = NoError
    /\ gw.pc = "FAILED" =>
          /\ gw.response.error.type \in {"network", "rate_limit", "quota", "auth", "unknown"}
          /\ gw.response.action = NoAction

C2_Witness == gw.pc = "FAILED" /\ gw.invocations = 4 /\ gw.attempt = 3

\* C3: after attempt n fails, the call goes on to attempt n+1 exactly when
\* n < 3 and the message carries a retriable signature; otherwise it is
\* FAILED at once, and a FAILED call invokes the LLM backend no more.
C3_RetryIffRetriable ==
    [][ /\ GwFailedAttempt =>
             /\ gw'.invocations = gw.invocations + 1
             /\ IF gw.attempt < 3 /\ HasRetriableSignature(gw'.lastError)
                THEN gw'.pc = "SLEEPING" /\ gw'.attempt = gw.attempt
                ELSE gw'.pc = "FAILED"
        /\ gw.pc = "SLEEPING" =>
             /\ gw'.pc = "ATTEMPTING"
             /\ gw'.attempt = gw.attempt + 1
             /\ gw'.invocations = gw.invocations
        /\ gw.pc = "FAILED" => gw'.invocations = gw.invocations
      ]_vars

C3_Witness ==
    /\ gw.pc = "FAILED"
    /\ Len(gw.errs) = 2
    /\ HasRetriableSignature(gw.errs[1])
    /\ ~HasRetriableSignature(gw.errs[2])

\* C4: an attempt that obtains a response ends the call as SUCCEEDED with a
\* result that carries no error; no backoff sleep, onRetry call or further
\* LLM invocation follows, however many attempts failed before.
C4_SuccessShortCircuits ==
    [][ /\ GwAnsweredAttempt =>
             /\ gw'.pc = "SUCCEEDED"
             /\ gw'.response \in LlmResponses
             /\ gw'.onRetryCalls = gw.onRetryCalls
             /\ gw'.delay = gw.delay
        /\ gw.pc = "SUCCEEDED" => gw' = gw
      ]_vars

C4_Witness == gw.pc = "SUCCEEDED" /\ Len(gw.errs) = 2 /\ gw.onRetryCalls = 2

\* C5: errors of class quota and auth are never retried: a call that returns
\* error.type quota or auth made exactly one LLM attempt and never invoked
\* onRetry.
C5_QuotaAuthSingleAttempt ==
    (gw.pc = "FAILED" /\ gw.response.error.type \in {"quota", "auth"})
        => (gw.invocations = 1 /\ gw.onRetryCalls = 0)

\* C6 as stated: a FAILED call whose message contains '429' is rate_limit
\* with canRetry, one whose message contains 'quota' is quota without
\* canRetry, whatever else the message contains.
C6_ClassifiedByAnySignature ==
    gw.pc = "FAILED" =>
        /\ "429" \in gw.lastError =>
              (gw.response.error.type = "rate_limit" /\ gw.response.error.canRetry)
        /\ "quota" \in gw.lastError =>
              (gw.response.error.type = "quota" /\ ~gw.response.error.canRetry)

\* C6 amended: the classification follows the final message by precedence:
\* '429' without '503' and 'overloaded' is rate_limit with canRetry; 'quota'
\* without '503', 'overloaded' and '429' is quota without canRetry.
C6_ClassifiedByPrecedence ==
    gw.pc = "FAILED" =>
        /\ gw.response.error.message = gw.lastError
        /\ ("429" \in gw.lastError /\ gw.lastError \cap {"503", "overloaded"} = {}) =>
              (gw.response.error.type = "rate_limit" /\ gw.response.error.canRetry)
        /\ ("quota" \in gw.lastError /\ gw.lastError \cap {"503", "overloaded", "429"} = {}) =>
              (gw.response.error.type = "quota" /\ ~gw.response.error.canRetry)

C6_Witness ==
    /\ gw.pc = "FAILED"
    /\ gw.lastError = {"429", "quota"}
    /\ gw.response.error.type = "rate_limit"
    /\ gw.response.error.canRetry

(***************************************************************************)
(* Properties of handleSheetAction (SpecEngine)                            *)
(***************************************************************************)
Homogeneous(data) ==
    \A i, j \in 1..Len(data) : DOMAIN data[i] = DOMAIN data[j]

InBounds(rowIndex, data) == rowIndex >= 0 /\ rowIndex < Len(data)

\* C7: after every mutation, and so after any sequence of Actions applied to
\* a Dataset whose Records share one column set, all Records have the same
\* set of column names.
C7_ColumnsHomogeneous == Homogeneous(sheetData)

\* C8: update_cell with a rowIndex outside 0..length-1 leaves the Dataset as
\* it was: same length, same Records.
C8_UpdateCellOutOfBoundsNoOp ==
    (lastAction.name = "update_cell" /\ ~InBounds(lastAction.rowIndex, prevData))
        => sheetData = prevData

\* C9: batch_update with an invalid update (a rowIndex out of bounds) in its
\* list leaves the Dataset exactly as it was.
C9_BatchUpdateAllOrNothing ==
    (/\ lastAction.name = "batch_update"
     /\ \E k \in 1..Len(lastAction.updates) :
            ~InBounds(lastAction.updates[k].rowIndex, prevData))
        => sheetData = prevData

(***************************************************************************)
(* Properties of the chat session (SpecChat)                               *)
(***************************************************************************)
\* A turn without its feedback tag.
Untagged(turn) == [role |-> turn.role, content |-> turn.content]

\* Every turn of before is still in after, at the same position.
TurnsKept(before, after) ==
    /\ Len(after) >= Len(before)
    /\ \A k \in 1..Len(before) : Untagged(after[k]) = Untagged(before[k])

\* C1: within one chat session at most one getAIResponse call is in flight:
\* whatever entry point starts a send, it is not started while an earlier one
\* is pending.
C1_SingleInFlight == Len(calls) <= 1

\* C10: the Conversation is append-only under sends, Gateway responses and
\* failures, action confirmations, the 'reset' shortcut and feedback tagging:
\* every turn stays in the list at its position.
C10_ConversationAppendOnly ==
    [][lastEvent' # "onNewChat" => TurnsKept(messages, messages')]_vars

\* The pending call whose getAIResponse resolved in this step, if any.
ResolvedCall(i) == i \in 1..Len(calls) /\ calls' = RemoveAt(calls, i)

CatalogNames ==
    {"sort_data", "calculate_aggregate", "filter_data", "add_row", "update_cell",
     "find_top_n", "delete_row", "delete_column", "add_column", "format_cells",
     "merge_cells", "apply_formula", "duplicate_sheet", "rename_sheet",
     "batch_update", "pivot_table", "create_chart", "clear_filter",
     "generate_chart", "delete_rows", "delete_columns"}

AppliedAction == lastEvent' = "handleSheetAction"

\* C12: an Action whose name is outside the catalog leaves the Dataset as it
\* was and produces a visible notice: a chat turn or a notification.
C12_UnknownActionSurfaced ==
    [][(AppliedAction /\ lastAction'.name \notin CatalogNames) =>
          /\ sheetData' = sheetData
          /\ \/ Len(messages') > Len(messages)
             \/ NotificationOf(sheetData, lastAction') # ""
      ]_vars

\* The columns add_row requires.
RequiredColumns == {"month", "product", "region", "sales", "cost", "profit"}

\* C13: add_row whose arguments omit a required column is rejected: the
\* Dataset keeps its length and gains no Record with an undefined field.
C13_AddRowMissingColumnRejected ==
    (/\ lastAction.name = "add_row"
     /\ RequiredColumns \ DOMAIN lastAction.row # {})
        => /\ Len(sheetData) = Len(prevData)
           /\ \A i \in 1..Len(sheetData) :
                 \A c \in DOMAIN sheetData[i] : sheetData[i][c] # Undefined

ReadOnlyNames == {"calculate_aggregate", "find_top_n", "generate_chart", "clear_filter"}

LastContent(turns) == turns[Len(turns)].content

\* C14: calculate_aggregate, find_top_n, generate_chart and clear_filter
\* leave the Dataset as it was, and the same calculate_aggregate or
\* find_top_n applied again to the same Dataset gives the same confirmation.
C14_ReadOnlyActions ==
    [][AppliedAction =>
          /\ lastAction'.name \in ReadOnlyNames => sheetData' = sheetData
          /\ (/\ lastAction' = lastAction
              /\ lastAction.name \in {"calculate_aggregate", "find_top_n"}
              /\ sheetData = prevData)
                => LastContent(messages') = LastContent(messages)
      ]_vars

C14_Witness ==
    /\ applied = 2
    /\ lastAction.name = "calculate_aggregate"
    /\ lastAction.filterColumn = "region"
    /\ sheetData = InitialData
    /\ LastContent(messages) = <<"SUM of sales (filtered by region=North): 15,000">>
    /\ messages[Len(messages) - 1].content = LastContent(messages)

\* The 0-based indices of data that rowIndices does not list.
KeptIndices(data, rowIndices) ==
    {i \in 0..(Len(data) - 1) : \A k \in 1..Len(rowIndices) : rowIndices[k] # i}

\* C15: delete_rows leaves exactly the Records whose index in the Dataset
\* before the deletion is not listed, in their original order, whatever the
\* order or repetition of the listed indices.
C15_DeleteRowsByOriginalIndex ==
    lastAction.name = "delete_rows" =>
        LET kept == KeptIndices(prevData, lastAction.rowIndices)
        IN  /\ Len(sheetData) = Cardinality(kept)
            /\ \A i \in kept :
                  sheetData[Cardinality({j \in kept : j < i}) + 1] = prevData[i + 1]

C15_Witness ==
    /\ lastAction.name = "delete_rows"
    /\ lastAction.rowIndices = <<0, 0>>
    /\ Len(prevData) = 2
    /\ sheetData = <<prevData[2]>>

\* The positions in updates that target the cell (rowIndex, column).
Targeting(updates, rowIndex, column) ==
    {k \in 1..Len(updates) : updates[k].rowIndex = rowIndex /\ updates[k].column = column}

\* C16: after batch_update a cell that several updates target holds the
\* value of the last of them in the list (as sent), and a cell no update
\* targets is as it was.
C16_BatchUpdateLastWriteWins ==
    lastAction.name = "batch_update" =>
        /\ Len(sheetData) = Len(prevData)
        /\ \A i \in 1..Len(sheetData) :
              \A c \in DOMAIN sheetData[i] :
                 LET ks == Targeting(lastAction.updates, i - 1, c)
                 IN  IF ks = {}
                     THEN c \in DOMAIN prevData[i] /\ sheetData[i][c] = prevData[i][c]
                     ELSE sheetData[i][c] =
                             Str(lastAction.updates[CHOOSE k \in ks : \A j \in ks : j <= k].value)

C16_Witness ==
    /\ lastAction.name = "batch_update"
    /\ Len(prevData) = 1
    /\ Cardinality(Targeting(lastAction.updates, 0, "sales")) = 2
    /\ lastAction.updates[1].value = "10"
    /\ sheetData[1].sales = Str("20")

\* Two cells of one type are in the order asked for (cells of different
\* types, undefined and NaN impose nothing).
InOrder(a, b, order) ==
    LET c == IF a.kind = "number" /\ b.kind = "number"
             THEN (IF a.num < b.num THEN -1 ELSE IF a.num > b.num THEN 1 ELSE 0)
             ELSE IF a.kind = "string" /\ b.kind = "string"
             THEN LocaleCompare(a.str, b.str)
             ELSE 0
    IN  IF order = "ascending" THEN c <= 0 ELSE c >= 0

\* after is before rearranged by p, Records with equal cells in the column
\* keeping their order.
StableRearrangement(p, before, after, column) ==
    /\ \A i, j \in DOMAIN p : i # j => p[i] # p[j]
    /\ \A i \in DOMAIN p : after[i] = before[p[i]]
    /\ \A i, j \in DOMAIN p :
          (i < j /\ Cell(after[i], column) = Cell(after[j], column)) => p[i] < p[j]

\* The sorted Dataset is a stable, ordered rearrangement of the one before.
SortedStably ==
        /\ Len(sheetData) = Len(prevData)
        /\ \E p \in [1..Len(prevData) -> 1..Len(prevData)] :
              StableRearrangement(p, prevData, sheetData, lastAction.column)
        /\ \A i, j \in 1..Len(sheetData) :
              i < j => InOrder(Cell(sheetData[i], lastAction.column),
                               Cell(sheetData[j], lastAction.column), lastAction.order)

\* Every Record has a number in the column, or every Record has a string.
TypedColumn(data, column) ==
    \/ \A i \in 1..Len(data) : Cell(data[i], column).kind = "number"
    \/ \A i \in 1..Len(data) : Cell(data[i], column).kind = "string"

BackoffBase(n) == CASE n = 0 -> 2000 [] n = 1 -> 4000 [] n = 2 -> 8000

\* C18: before attempt n+1 (n in 0..2) the call waits the base delay
\* min(2000 * 2^n, 32000), i.e. 2000, 4000, 8000 ms, plus a jitter in
\* [0, 1000).
C18_BackoffDelay ==
    gw.pc = "SLEEPING" =>
        /\ gw.attempt \in 0..2
        /\ ExponentialDelay(gw.attempt) = BackoffBase(gw.attempt)
        /\ gw.delay >= BackoffBase(gw.attempt)
        /\ gw.delay < BackoffBase(gw.attempt) + 1000

C18_Witness == gw.pc = "SLEEPING" /\ gw.attempt = 2 /\ gw.delay = 8999

\* C19: a call of getAIResponse, whether it succeeds or fails, changes no
\* state besides its own progress: not the Dataset, not the conversation
\* context, not a persistent store.
C19_GatewayReadOnly ==
    [][gw' # gw =>
          /\ sheetData' = sheetData
          /\ conversationContext' = conversationContext
          /\ errorHistory' = errorHistory
      ]_vars

\* C20: every Action of the catalog that handleSheetAction applies appends
\* exactly one assistant turn to the conversation and puts exactly one entry
\* naming it at the head of the history log.
C20_OneConfirmationOneEntry ==
    [][(AppliedAction /\ lastAction'.name \in CatalogNames) =>
          /\ Len(messages') = Len(messages) + 1
          /\ SubSeq(messages', 1, Len(messages)) = messages
          /\ messages'[Len(messages')].role = "assistant"
          /\ history' = AddToHistory(history, HistoryEntryOf(sheetData, lastAction'))
      ]_vars

\* A step of handleSheetAction that logs its Action.
LoggedStep == AppliedAction /\ Confirms(sheetData, lastAction')

\* C21: the history log only grows: a logged Action adds one entry and every
\* entry the log held stays, in the same order, behind it.
C21_HistoryAppendOnly ==
    [][/\ Len(history') >= Len(history)
       /\ \A i \in 1..Len(history) :
             history'[Len(history') - Len(history) + i] = history[i]
       /\ LoggedStep => Len(history') = Len(history) + 1
      ]_vars

\* The call of getAIResponse has returned its result.
GwReturned == gw.pc \in {"RETURNED", "SUCCEEDED", "FAILED"}

\* The utterance, in lower case, has 'chart' and none of 'bar', 'line', 'pie'.
ChartWithoutType(userInput) ==
    LET lower == [i \in 1..Len(userInput) |-> LowerOf(userInput[i])]
        has(word) == \E i \in 1..Len(lower) :
                        lower[i] = word \/ word \in WordsWithin(lower[i])
    IN  has("chart") /\ ~has("bar") /\ ~has("line") /\ ~has("pie")

\* C22: with a key configured, an utterance with 'chart' and no chart type
\* gets the clarifying question without any invocation of the backend; any
\* other utterance has the backend invoked at least once.
C22_ChartGuard ==
    (apiKey /\ GwReturned) =>
        IF ChartWithoutType(gw.userInput)
        THEN /\ gw.invocations = 0
             /\ gw.response = TextResponse("What type of chart would you like to generate?")
        ELSE gw.invocations >= 1

C22_Witness ==
    /\ apiKey
    /\ gw.pc = "RETURNED"
    /\ gw.userInput = <<"Chart">>
    /\ gw.invocations = 0

\* add_column of a column that the Action just before it deleted.
ReAddsDeletedColumn ==
    /\ AppliedAction
    /\ lastAction.name = "delete_columns"
    /\ lastAction'.name = "add_column"
    /\ \E k \in 1..Len(lastAction.columnNames) :
          lastAction.columnNames[k] = lastAction'.columnName

\* C23: delete_columns of C followed by add_column of C with default d leaves
\* every Record with C = d ('' when no default is given), every column that
\* was not deleted as it was, and the rows in their order.
C23_DeleteThenAddColumn ==
    [][ReAddsDeletedColumn =>
          LET C == lastAction'.columnName
              d == lastAction'.defaultValue
              deleted == {lastAction.columnNames[k] : k \in 1..Len(lastAction.columnNames)}
          IN  /\ Len(sheetData') = Len(prevData)
              /\ \A i \in 1..Len(prevData) :
                    /\ DOMAIN sheetData'[i] = ((DOMAIN prevData[i]) \ deleted) \cup {C}
                    /\ sheetData'[i][C] = IF d.kind = "undefined" THEN Str("") ELSE d
                    /\ \A c \in (DOMAIN prevData[i]) \ deleted :
                          sheetData'[i][c] = prevData[i][c]
      ]_vars

C23_Witness ==
    /\ lastAction = [name |-> "add_column", columnName |-> "cost", defaultValue |-> Undefined]
    /\ Len(sheetData) = Len(InitialData)
    /\ "cost" \notin DOMAIN prevData[1]
    /\ sheetData[1]["cost"] = Str("")
    /\ sheetData[1]["sales"] = Num(15000)

\* a is at least b: numerically for two numbers, lexicographically for two
\* strings; values of different kinds are not ordered.
AtLeast(a, b) ==
    CASE a.kind = "number" /\ b.kind = "number" -> a.num >= b.num
      [] a.kind = "string" /\ b.kind = "string" -> LocaleCompare(a.str, b.str) >= 0
      [] OTHER -> TRUE

\* The rows of data from the greatest value of column to the least.
Descending(rows, column) ==
    \A i, j \in 1..Len(rows) :
        i < j => AtLeast(Cell(rows[i], column), Cell(rows[j], column))

\* C24: find_top_n(column, n) answers with the min(n, row count) Records of
\* greatest column value, listed from the greatest down; all the rows when n
\* exceeds their number.
C24_TopNGreatestDescending ==
    [][(AppliedAction /\ lastAction'.name = "find_top_n") =>
          \E ranked \in Rearrangements(sheetData) :
              LET column == lastAction'.column
                  n == lastAction'.n
                  count == Min(n, Len(sheetData))
              IN  /\ Descending(ranked, column)
                  /\ Len(messages') = Len(messages) + 1
                  /\ LastContent(messages') =
                        << "Top " \o NumStr(n) \o " by " \o column \o ":\n\n"
                           \o TopList(SubSeq(ranked, 1, count), count, column) >>
      ]_vars

\* The utterance, in lower case, has one of the complexity keywords.
HasComplexityKeyword(userInput) ==
    \E i \in 1..Len(userInput), keyword \in complexKeywords :
        LowerOf(userInput[i]) = keyword \/ keyword \in WordsWithin(LowerOf(userInput[i]))

\* C25: in 'auto' mode the higher-capability model is chosen exactly for the
\* utterances with a complexity keyword or more than 200 characters; 'max'
\* and 'gemini-pro' always choose it, 'gemini-flash' never does.
C25_ModelDispatch ==
    gw.pc = "ATTEMPTING" =>
        LET higher ==
                \/ gw.modelMode \in {"max", "gemini-pro"}
                \/ /\ gw.modelMode = "auto"
                   /\ \/ HasComplexityKeyword(gw.userInput)
                      \/ CharLength(gw.userInput, Len(gw.userInput)) > 200
        IN  gw.model = IF higher THEN "gemini-pro-latest" ELSE "gemini-flash-latest"

C25_Witness ==
    /\ gw.pc = "ATTEMPTING"
    /\ gw.modelMode = "auto"
    /\ gw.userInput = <<Text200, "s">>
    /\ gw.model = "gemini-pro-latest"

\* The first position of name in the sheet list.
SheetPosition(names, name) ==
    CHOOSE k \in 1..Len(names) :
        names[k] = name /\ \A j \in 1..(k - 1) : names[j] # name

\* C26: rename_sheet(newName) replaces the name of the sheet that is active
\* when it is applied, makes newName the active sheet and leaves the Dataset
\* as it was.
C26_RenamesActiveSheet ==
    [][(AppliedAction /\ lastAction'.name = "rename_sheet") =>
          /\ \E k \in 1..Len(sheets) : sheets[k] = activeSheet
          /\ sheets' = [sheets EXCEPT
                           ![SheetPosition(sheets, activeSheet)] = lastAction'.newName]
          /\ activeSheet' = lastAction'.newName
          /\ sheetData' = sheetData
      ]_vars

\* The n-th handleSendMessage is waiting for getAIResponse.
AwaitingResponse(n) == \E i \in 1..Len(calls) : calls[i].id = n

LastActionChangedData == SheetAfter(prevData, lastAction) # prevData

\* C28: an undo that follows a Dataset-changing Action puts the Dataset back
\* to its value before that Action, and a redo that follows the undo brings
\* the changed value back.
C28_UndoRevertsLastMutation ==
    [][/\ (lastEvent = "handleSheetAction" /\ lastEvent' = "undo" /\ LastActionChangedData)
            => sheetData' = prevData
       /\ (lastEvent = "undo" /\ lastEvent' = "redo" /\ LastActionChangedData)
            => sheetData' = SheetAfter(prevData, lastAction)
      ]_vars

\* The utterance is 'reset' once white space at its ends is dropped and its
\* letters are put in lower case.
SaysReset(userInput) ==
    LET lower == [i \in 1..Len(userInput) |-> LowerOf(userInput[i])]
        words == SelectSeq(lower, LAMBDA token : token # " ")
    IN  words = <<"reset">>

\* A step of handleSendMessage taking the utterance 'reset'.
ResetSent ==
    /\ sends' = sends + 1
    /\ Len(messages') > Len(messages)
    /\ messages'[Len(messages) + 1].role = "user"
    /\ SaysReset(messages'[Len(messages) + 1].content)

\* C29: handling the utterance 'reset' leaves the Dataset equal to the
\* original Dataset and the filter and the sort cleared, answers in the
\* conversation, and starts no call of the Gateway.
C29_ResetRestoresInitialData ==
    [][ResetSent =>
          /\ sheetData' = InitialData
          /\ filterState' = NoFilter
          /\ sortState' = NoSort
          /\ calls' = calls
          /\ isLoading' = isLoading
          /\ errorHistory' = errorHistory
          /\ messages' = messages \o
                 << ChatTurn("user", messages'[Len(messages) + 1].content),
                    ChatTurn("assistant", <<"Data reset to original state.">>) >>
      ]_vars

C29_Witness ==
    /\ lastEvent \in {"handleSend", "onCommand"}
    /\ Len(history) >= 2
    /\ history[1].action = "reset"
    /\ history[2].action = "delete_rows"
    /\ sheetData = InitialData
    /\ prevData = InitialData
    /\ lastAction.name = "delete_rows"
    /\ calls = <<>>

\* C30: the undo cursor stays between -1 and the last index of the history:
\* a logged Action puts it at -1, it goes up by one only from below the last
\* index and down by one only from above 0.
C30_UndoCursorInBounds ==
    /\ [](-1 <= historyIndex /\ historyIndex <= Len(history) - 1)
    /\ [][/\ LoggedStep => historyIndex' = -1
          /\ historyIndex' > historyIndex =>
                /\ historyIndex' = historyIndex + 1
                /\ historyIndex < Len(history) - 1
          /\ (historyIndex' < historyIndex /\ ~LoggedStep) =>
                /\ historyIndex' = historyIndex - 1
                /\ historyIndex > 0
         ]_vars

C30_Witness ==
    /\ applied = 51
    /\ Len(history) = 50
    /\ historyIndex = 49
    /\ lastEvent = "undo"

====
